---- MODULE Spec2Model ----
(***************************************************************************)
(* Shift automation tools: the optimizer (Shift_optimizer.py), as called   *)
(* directly through optimize_shifts and as the process started by run();   *)
(* the web application (app.py) and its storage (excel_manager.py), which  *)
(* collect the staff's preferences and start the optimizer process.        *)
(*                                                                         *)
(* Strings.  The source's labels are Japanese; they are written here in    *)
(* romanised form:                                                         *)
(*   hayaban = 早番 (early)        osoban = 遅番 (late)                    *)
(*   nakaban = 中番 (mid)          yasumi = 休み (rest)                    *)
(*   yukyu = 有給 (paid leave)     hankyu = 半休 (half day)                *)
(*   kibokyu = 希望休 (rest requested)                                     *)
(*   dochirademo = どちらでも (no preference)                              *)
(*   miteishutsu = 未提出 (not submitted)                                  *)
(*   teishutsuzumi = 提出済み (submitted)                                  *)
(*                                                                         *)
(* Scale.  The rest band of the source is 9..11 with target 10.  With      *)
(* those numbers no request smaller than 3 employees x 27 days has any     *)
(* feasible assignment, which is out of reach of explicit enumeration.     *)
(* The model keeps the band's shape (three admissible counts, the target   *)
(* in the middle, independent of num_days) and moves it down by 8 days:    *)
(* 1..3 with target 2.  Every other number is the source's.                *)
(*                                                                         *)
(* Names.  num_days is the state variable that holds the argument of the   *)
(* call; as a parameter of an operator the same quantity is written        *)
(* n_days.  Floats are kept in half days (the source's value times 2).     *)
(***************************************************************************)
EXTENDS Integers, Sequences, FiniteSets

(***************************************************************************)
(* State                                                                   *)
(***************************************************************************)
VARIABLES
    op,            \* the operation whose outcome the state holds
    employees,     \* the request (for run: what load_excel_from_folder returned)
    preferences,
    num_days,
    solve_called,  \* solver.Solve was reached
    status,        \* the status it returned
    values,        \* the solver's values (direct call only)
    outcome,       \* "result_stats", "None_None" or "IndexError"
    result,        \* the returned result (direct call only)
    stats,         \* the returned stats (direct call only)
    exit_code,     \* of the optimizer process; -1 when no process ran
    artifact,      \* the result workbook on disk: "absent" or "present"
    wrote,         \* the last run wrote the result workbook
    stdout,        \* what the last operation printed, as message names
    stderr,
    master,        \* the month's staff master workbook
    pref_files,    \* the month's preference workbooks, by staff name
    reply,         \* what the last request handler of the application did
    threads,       \* the request handlers in progress
    served         \* the number of requests the application has handled

\* the state of the application and its storage
app_vars == <<master, pref_files, reply, threads, served>>

vars == <<op, employees, preferences, num_days, solve_called, status, values, outcome,
          result, stats, exit_code, artifact, wrote, stdout, stderr,
          master, pref_files, reply, threads, served>>

(***************************************************************************)
(* Labels                                                                  *)
(***************************************************************************)
HAYABAN == "hayaban"
NAKABAN == "nakaban"
OSOBAN == "osoban"
YASUMI == "yasumi"
YUKYU == "yukyu"
HANKYU == "hankyu"
KIBOKYU == "kibokyu"
DOCHIRADEMO == "dochirademo"

\* cp_model status values the solve can end with
OPTIMAL == "OPTIMAL"
FEASIBLE == "FEASIBLE"
INFEASIBLE == "INFEASIBLE"
UNKNOWN == "UNKNOWN"

(***************************************************************************)
(* Bounds and inputs                                                       *)
(***************************************************************************)
\* longest month of a request
MaxDays == 4

\* the staff names a request is drawn from
Staff == <<"A", "B", "C">>

\* self.shift_types
shift_types == <<HAYABAN, NAKABAN, OSOBAN, YASUMI, YUKYU, HANKYU>>

\* the tags a preference cell of a request may carry
PreferenceTags == {HAYABAN, OSOBAN, NAKABAN, YASUMI, YUKYU, HANKYU, KIBOKYU, DOCHIRADEMO}

(***************************************************************************)
(* Program constants                                                       *)
(***************************************************************************)
num_shifts == 3

\* model.Add(rest_count >= 9), moved down by 8
RestMin == 9 - 8

\* model.Add(rest_count <= 11), moved down by 8
RestMax == 11 - 8

\* self.target_rest_days = 10, moved down by 8
target_rest_days == 10 - 8

(***************************************************************************)
(* The CP model built by optimize_shifts.  A value of the solver is        *)
(* v[e][d][s] in {0,1} for e in 0..num_employees-1, d in 0..num_days-1,    *)
(* s in 0..num_shifts-1 (0 early, 1 late, 2 rest).                         *)
(***************************************************************************)
RECURSIVE SumTo(_, _)
\* sum(f[i] for i in range(n))
SumTo(f, n) == IF n <= 0 THEN 0 ELSE f[n - 1] + SumTo(f, n - 1)

CellValues == [0..(num_shifts - 1) -> {0, 1}]

\* sum(shifts[(e, d, s)] for s in range(num_shifts)) == 1
one_shift_per_day(cell) == SumTo(cell, num_shifts) = 1

\* a faulty coverage: ">= 0" written for ">= 1"
coverage_ge_0(v, num_employees, n_days) ==
    \A d \in 0..(n_days - 1) :
        /\ SumTo([e \in 0..(num_employees - 1) |-> v[e][d][0]], num_employees) >= 0
        /\ SumTo([e \in 0..(num_employees - 1) |-> v[e][d][1]], num_employees) >= 0

\* every day: at least one early and at least one late
coverage(v, num_employees, n_days) ==
    \A d \in 0..(n_days - 1) :
        /\ SumTo([e \in 0..(num_employees - 1) |-> v[e][d][0]], num_employees) >= 1
        /\ SumTo([e \in 0..(num_employees - 1) |-> v[e][d][1]], num_employees) >= 1

\* a faulty constraint: both terms taken on day d
no_late_then_early_same_day(row, n_days) ==
    \A d \in 0..(n_days - 2) : row[d][1] + row[d][0] <= 1

\* shifts[(e, d, 1)] + shifts[(e, d + 1, 0)] <= 1
no_late_then_early(row, n_days) ==
    \A d \in 0..(n_days - 2) : row[d][1] + row[d + 1][0] <= 1

\* rest_count = sum(shifts[(e, d, 2)] for d in range(num_days))
rest_count(row, n_days) == SumTo([d \in 0..(n_days - 1) |-> row[d][2]], n_days)

\* a faulty band: the lower limit left out
rest_band_upper_only(row, n_days) == rest_count(row, n_days) <= RestMax

\* rest_count >= 9 and rest_count <= 11 (at the model's scale)
rest_band(row, n_days) ==
    /\ rest_count(row, n_days) >= RestMin
    /\ rest_count(row, n_days) <= RestMax

\* a faulty levelling: the equality enforced without the indicator
rest_levelling_enforced(row, n_days) == rest_count(row, n_days) = target_rest_days

\* model.Add(rest_count == target).OnlyEnforceIf(model.NewBoolVar(...)):
\* the indicator is a fresh variable nothing else constrains or reads
rest_levelling(row, n_days) ==
    \E obj_e \in {0, 1} : (obj_e = 1) => (rest_count(row, n_days) = target_rest_days)

\* all constraints of the model on a full value v
ModelConstraints(v, num_employees, n_days) ==
    /\ \A e \in 0..(num_employees - 1) : \A d \in 0..(n_days - 1) :
           one_shift_per_day(v[e][d])
    /\ coverage(v, num_employees, n_days)
    /\ \A e \in 0..(num_employees - 1) : no_late_then_early(v[e], n_days)
    /\ \A e \in 0..(num_employees - 1) : rest_band(v[e], n_days)
    /\ \A e \in 0..(num_employees - 1) : rest_levelling(v[e], n_days)

\* the cells that satisfy the one-shift constraint
OneShiftCells == {c \in CellValues : one_shift_per_day(c)}

\* the rows that satisfy the per-employee constraints, as an enumerated set
EmployeeRows(n_days) ==
    {r : r \in {row \in [0..(n_days - 1) -> OneShiftCells] :
                    /\ no_late_then_early(row, n_days)
                    /\ rest_band(row, n_days)
                    /\ rest_levelling(row, n_days)}}

\* EmployeeRows for every length of month
RowTable == [nd \in 0..MaxDays |-> EmployeeRows(nd)]

\* the values that satisfy ModelConstraints, enumerated row by row (see
\* SolveMeetsModelConstraints)
Solutions(num_employees, n_days) ==
    {w : w \in {v \in [0..(num_employees - 1) -> RowTable[n_days]] :
                    coverage(v, num_employees, n_days)}}

\* Solutions for every size of request
SolutionTable ==
    [ne \in 0..Len(Staff), nd \in 0..MaxDays |-> Solutions(ne, nd)]

\* Solutions, from the table where the table has the size
SolutionsFor(num_employees, n_days) ==
    IF num_employees <= Len(Staff) /\ n_days <= MaxDays
    THEN SolutionTable[num_employees, n_days]
    ELSE Solutions(num_employees, n_days)

\* a faulty term: an early preference earns nothing
objective_term_early_unrewarded(pref, cell) ==
    IF pref = OSOBAN THEN 20 * cell[1]
    ELSE IF pref \in {KIBOKYU, YUKYU, HANKYU} THEN 30 * cell[2]
    ELSE IF pref = DOCHIRADEMO THEN 5 * cell[0] + 5 * cell[1]
    ELSE 0

\* the objective term of one (employee, day)
objective_term(pref, cell) ==
    IF pref = HAYABAN THEN 20 * cell[0]
    ELSE IF pref = OSOBAN THEN 20 * cell[1]
    ELSE IF pref \in {KIBOKYU, YUKYU, HANKYU} THEN 30 * cell[2]
    ELSE IF pref = DOCHIRADEMO THEN 5 * cell[0] + 5 * cell[1]
    ELSE 0

\* sum(objective_terms)
objective(v, emps, prefs, n_days) ==
    SumTo([e \in 0..(Len(emps) - 1) |->
              SumTo([d \in 0..(n_days - 1) |->
                        objective_term(prefs[emps[e + 1]][d + 1], v[e][d])],
                    n_days)],
          Len(emps))

\* preferences[emp_name][d] with d past the end of the list
raises_IndexError(emps, prefs, n_days) ==
    \E i \in 1..Len(emps) : Len(prefs[emps[i]]) < n_days

NoValues == <<>>

\* the largest element of a non-empty set of integers
Maximum(S) == CHOOSE b \in S : \A x \in S : x <= b

\* the solutions no other solution beats on the objective
OptimalSolutions(sols, emps, prefs, n_days) ==
    IF sols = {} THEN {}
    ELSE UNION {{w \in sols : objective(w, emps, prefs, n_days) = Maximum(scores)} :
                   scores \in {{objective(v, emps, prefs, n_days) : v \in sols}}}

\* solver.Solve(model) within max_time_in_seconds: the status and the values.
\* OPTIMAL: a solution of the largest objective.  FEASIBLE: some solution,
\* the time ran out before the search ended.  INFEASIBLE: there is none.
\* UNKNOWN: the time ran out before any solution or a proof of none.
Solve(emps, prefs, n_days) ==
    {[status |-> OPTIMAL, values |-> v] :
        v \in OptimalSolutions(SolutionsFor(Len(emps), n_days), emps, prefs, n_days)}
    \cup {[status |-> FEASIBLE, values |-> v] : v \in SolutionsFor(Len(emps), n_days)}
    \cup (IF SolutionsFor(Len(emps), n_days) = {}
          THEN {[status |-> INFEASIBLE, values |-> NoValues]} ELSE {})
    \cup {[status |-> UNKNOWN, values |-> NoValues]}

(***************************************************************************)
(* Result extraction and statistics (the success branch of                 *)
(* optimize_shifts)                                                        *)
(***************************************************************************)
\* a faulty labelling: the label taken from self.shift_types[s], whose entry
\* 1 is the mid shift
appended_labels_by_shift_types(cell, orig) ==
    IF cell[0] = 1 THEN <<shift_types[1]>>
    ELSE IF cell[1] = 1 THEN <<shift_types[2]>>
    ELSE IF cell[2] = 1 THEN <<shift_types[3]>>
    ELSE <<>>

\* a faulty labelling: every rest slot gets the plain rest label
appended_labels_plain_rest(cell, orig) ==
    IF cell[0] = 1 THEN <<HAYABAN>>
    ELSE IF cell[1] = 1 THEN <<OSOBAN>>
    ELSE IF cell[2] = 1 THEN <<YASUMI>>
    ELSE <<>>

\* what the loop over s appends for one (e, d): the label of the first s
\* whose value is 1, then break; nothing when no value is 1
appended_labels(cell, orig) ==
    IF cell[0] = 1 THEN <<HAYABAN>>
    ELSE IF cell[1] = 1 THEN <<OSOBAN>>
    ELSE IF cell[2] = 1
         THEN <<IF orig = YUKYU THEN YUKYU ELSE (IF orig = HANKYU THEN HANKYU ELSE YASUMI)>>
    ELSE <<>>

RECURSIVE result_row(_, _, _, _)
\* result[emp_name] after the loop over d, from day d on
result_row(row, pref_row, d, n_days) ==
    IF d >= n_days THEN <<>>
    ELSE appended_labels(row[d], pref_row[d + 1]) \o result_row(row, pref_row, d + 1, n_days)

\* list.count
count(list, x) == Cardinality({i \in 1..Len(list) : list[i] = x})

\* a faulty weighting: a half day counted as a whole rest day
rest_counts_half_as_whole(counts) ==
    2 * count(counts, YASUMI) + 2 * count(counts, YUKYU) + 2 * count(counts, HANKYU)

\* stats['rest_counts'][emp_name], in half days (the source's float times 2)
rest_counts_of(counts) == 2 * count(counts, YASUMI) + 2 * count(counts, YUKYU) + count(counts, HANKYU)

\* dict[key] = value
put(dict, key, value) == [k \in (DOMAIN dict) \cup {key} |-> IF k = key THEN value ELSE dict[k]]

EmptyDict == <<>>

NoStats == [early_counts |-> EmptyDict, late_counts |-> EmptyDict, rest_counts |-> EmptyDict]

RECURSIVE extract(_, _, _, _, _, _)
\* the loop "for e, emp_name in enumerate(employees)" from employee e on
extract(e, acc, v, emps, prefs, n_days) ==
    IF e >= Len(emps) THEN acc
    ELSE LET emp_name == emps[e + 1]
             counts == result_row(v[e], prefs[emp_name], 0, n_days)
         IN  extract(e + 1,
                     [result |-> put(acc.result, emp_name, counts),
                      stats |-> [early_counts |-> put(acc.stats.early_counts, emp_name,
                                                      count(counts, HAYABAN)),
                                 late_counts |-> put(acc.stats.late_counts, emp_name,
                                                     count(counts, OSOBAN)),
                                 rest_counts |-> put(acc.stats.rest_counts, emp_name,
                                                     rest_counts_of(counts))]],
                     v, emps, prefs, n_days)

\* if status in [cp_model.OPTIMAL, cp_model.FEASIBLE]
is_success(st) == st \in {OPTIMAL, FEASIBLE}

\* a faulty return: on failure the empty result and stats are returned in
\* place of None, None
returned_empty_on_failure(solved, emps, prefs, n_days) ==
    IF is_success(solved.status)
    THEN LET r == extract(0, [result |-> EmptyDict, stats |-> NoStats],
                          solved.values, emps, prefs, n_days)
         IN  [outcome |-> "result_stats", result |-> r.result, stats |-> r.stats]
    ELSE [outcome |-> "result_stats", result |-> EmptyDict, stats |-> NoStats]

\* what optimize_shifts returns after the solve
returned(solved, emps, prefs, n_days) ==
    IF is_success(solved.status)
    THEN LET r == extract(0, [result |-> EmptyDict, stats |-> NoStats],
                          solved.values, emps, prefs, n_days)
         IN  [outcome |-> "result_stats", result |-> r.result, stats |-> r.stats]
    ELSE [outcome |-> "None_None", result |-> EmptyDict, stats |-> NoStats]

(***************************************************************************)
(* Requests of a direct call                                               *)
(***************************************************************************)
Range(seq) == {seq[i] : i \in 1..Len(seq)}

StaffIndex(name) == CHOOSE i \in 1..Len(Staff) : Staff[i] = name

\* lists of distinct names, and lists whose last name repeats the first
EmployeeLists ==
    {[i \in 1..n |-> Staff[i]] : n \in 0..Len(Staff)}
    \cup {[i \in 1..n |-> IF i = n THEN Staff[1] ELSE Staff[i]] : n \in 2..Len(Staff)}

\* a row of the given length that alternates the tag p with the default tag
PreferenceRow(i, p, len) == [d \in 1..len |-> IF (i + d) % 2 = 0 THEN p ELSE DOCHIRADEMO]

\* short = 0: every list has num_days entries; short = i: the list of
\* Staff[i] is one entry short
Requests ==
    {[employees |-> emps, num_days |-> nd,
      preferences |-> [name \in Range(emps) |->
                          PreferenceRow(StaffIndex(name), p,
                                        IF short = StaffIndex(name) /\ nd > 0
                                        THEN nd - 1 ELSE nd)]] :
        emps \in EmployeeLists, nd \in 0..MaxDays, p \in PreferenceTags,
        short \in 0..Len(Staff)}

(***************************************************************************)
(* Storage of the application (excel_manager.py), for the current month.   *)
(* A workbook is held as the rows under its header; loading and saving a   *)
(* workbook are taken as atomic.                                           *)
(***************************************************************************)
MITEISHUTSU == "miteishutsu"
TEISHUTSUZUMI == "teishutsuzumi"

\* calendar.monthrange(year, month)[1], at the model's scale
MonthDays == 3

\* the largest number of requests the application handles in a behaviour
MaxRequests == 5

\* the month of year_month
MonthNumber == 11

\* no handler has replied
NoReply == [optimizer_invoked |-> FALSE, success |-> FALSE, error |-> <<>>, flashes |-> <<>>]

\* no staff master workbook in the month's folder
NoMaster == [exists |-> FALSE, rows |-> <<>>]

\* the staff names a setup form may carry (after strip, empty fields dropped)
SetupLists == EmployeeLists

\* create_month_shift: the folder and a master with every name not submitted
create_month_shift(staff_names) ==
    [exists |-> TRUE,
     rows |-> [i \in 1..Len(staff_names) |->
                  [name |-> staff_names[i], status |-> MITEISHUTSU, submitted_at |-> ""]]]

\* shift_exists
shift_exists(m) == m.exists

\* get_staff_list (no row of the master has an empty name)
get_staff_list(m) ==
    IF ~m.exists THEN <<>>
    ELSE [i \in 1..Len(m.rows) |->
             [name |-> m.rows[i].name,
              submitted |-> m.rows[i].status = TEISHUTSUZUMI,
              submitted_at |-> m.rows[i].submitted_at]]

\* some row carries the name
has_row(rows, staff_name) == \E i \in 1..Len(rows) : rows[i].name = staff_name

\* the first row that carries the name
first_row(rows, staff_name) ==
    CHOOSE i \in 1..Len(rows) :
        /\ rows[i].name = staff_name
        /\ \A k \in 1..(i - 1) : rows[k].name # staff_name

\* the loop of _update_staff_master on a loaded workbook: the first row of
\* the name is set, then break
updated_rows(rows, staff_name, submitted) ==
    IF ~has_row(rows, staff_name) THEN rows
    ELSE [rows EXCEPT ![first_row(rows, staff_name)] =
             IF submitted
             THEN [@ EXCEPT !.status = TEISHUTSUZUMI, !.submitted_at = "now"]
             ELSE [@ EXCEPT !.status = MITEISHUTSU, !.submitted_at = ""]]

\* _update_staff_master, from load to save
update_staff_master(m, staff_name, submitted) ==
    IF ~m.exists THEN m
    ELSE [m EXCEPT !.rows = updated_rows(m.rows, staff_name, submitted)]

\* check_all_submitted
check_all_submitted(m) ==
    IF get_staff_list(m) = <<>> THEN FALSE
    ELSE \A i \in 1..Len(get_staff_list(m)) : get_staff_list(m)[i].submitted

\* f'{month}/{day}'
format_date(day) == <<MonthNumber, day>>

\* int(date_str.split('/')[-1])
parse_day(date_str) == date_str[Len(date_str)]

RECURSIVE sorted_items(_, _)
\* sorted(preferences_dict.items()) from day d on
sorted_items(preferences_dict, d) ==
    IF d > MonthDays THEN <<>>
    ELSE (IF d \in DOMAIN preferences_dict
          THEN <<[day |-> d, preference |-> preferences_dict[d]]>> ELSE <<>>)
         \o sorted_items(preferences_dict, d + 1)

\* the rows save_staff_preferences writes: date, preference (the weekday
\* column is never read back)
pref_file_rows(preferences_dict) ==
    [r \in 1..Len(sorted_items(preferences_dict, 1)) |->
        [date |-> format_date(sorted_items(preferences_dict, 1)[r].day),
         preference |-> sorted_items(preferences_dict, 1)[r].preference]]

RECURSIVE load_pref_rows(_, _, _)
\* the loop of load_staff_preferences from row r on
load_pref_rows(rows, r, acc) ==
    IF r > Len(rows) THEN acc
    ELSE load_pref_rows(rows, r + 1,
                        IF rows[r].preference # ""
                        THEN put(acc, parse_day(rows[r].date), rows[r].preference)
                        ELSE acc)

\* load_staff_preferences
load_staff_preferences(files, staff_name) ==
    IF staff_name \notin DOMAIN files THEN EmptyDict
    ELSE load_pref_rows(files[staff_name], 1, EmptyDict)

\* get_all_preferences: the files of the staff marked submitted
get_all_preferences(m, files) ==
    [staff_name \in {get_staff_list(m)[i].name :
                        i \in {k \in 1..Len(get_staff_list(m)) : get_staff_list(m)[k].submitted}}
        |-> load_staff_preferences(files, staff_name)]

\* add_staff: the master after the call and the value returned
add_staff(m, staff_name) ==
    IF ~m.exists THEN [master |-> m, returned |-> FALSE]
    ELSE IF has_row(m.rows, staff_name) THEN [master |-> m, returned |-> FALSE]
    ELSE [master |-> [m EXCEPT !.rows = Append(m.rows, [name |-> staff_name,
                                                        status |-> MITEISHUTSU,
                                                        submitted_at |-> ""])],
          returned |-> TRUE]

\* a sequence without its i-th entry (ws.delete_rows)
delete_rows(rows, i) ==
    [k \in 1..(Len(rows) - 1) |-> IF k < i THEN rows[k] ELSE rows[k + 1]]

\* a dict without a key (pref_file.unlink)
unlink(files, staff_name) == [k \in (DOMAIN files) \ {staff_name} |-> files[k]]

\* remove_staff: the master and the preference files after the call and the
\* value returned
remove_staff(m, files, staff_name) ==
    IF ~m.exists \/ ~has_row(m.rows, staff_name)
    THEN [master |-> m, pref_files |-> files, returned |-> FALSE]
    ELSE [master |-> [m EXCEPT !.rows = delete_rows(m.rows, first_row(m.rows, staff_name))],
          pref_files |-> unlink(files, staff_name),
          returned |-> TRUE]

(***************************************************************************)
(* Texts.  A text is a sequence of lines and a line a sequence of words;   *)
(* an empty line is <<>>.  The words of the Japanese messages are          *)
(* romanised: era = エラー, mitsukarimasen = 見つかりません,               *)
(* saitekikai = 最適解, shippai shimashita = 失敗しました.                 *)
(***************************************************************************)
\* the lines each message of the optimizer process prints
printed_lines(message) ==
    CASE message = "run_start" ->
            << <<>>, <<"=====">>, <<"shift", "jido", "saitekika", "program", "Ver3.2">>,
               <<"=====">>, <<"PAD", "kara", "shitei", "sareta", "nengetsu">> >>
      [] message = "folder_not_found" ->
            << <<>>, <<"batsu", "era", ":", "folder", "ga", "mitsukarimasen", ":", "path">> >>
      [] message = "input_not_found" ->
            << <<"sagyo", "folder", ":", "path">>, <<>>,
               <<"batsu", "era", ":", "nyuryoku", "file", "ga", "mitsukarimasen", ":", "path">> >>
      [] message = "loading" ->
            << <<"sagyo", "folder", ":", "path">>, <<"file", "wo", "yomikomichu", ":", "path">> >>
      [] message = "load_done" -> << <<"yomikomi", "seiko">> >>
      [] message = "optimize_start" -> << <<>>, <<"saitekika", "wo", "kaishi">> >>
      [] message = "optimize_done" -> << <<"saitekika", "kanryo">> >>
      [] message = "no_solution" ->
            << <<"batsu", "saitekikai", "ga", "mitsukarimasen", "deshita">> >>
      [] message = "save_start" -> << <<>>, <<"kekka", "no", "hozon", "wo", "kaishi">> >>
      [] message = "save_done" -> << <<"hozon", "kanryo", ":", "path">> >>
      [] message = "save_error" ->
            << <<>>, <<"batsu", "hozonchu", "ni", "era", "ga", "hassei", "shimashita", ":", "e">> >>
      [] message = "error_occurred" ->
            << <<>>, <<"batsu", "era", "ga", "hassei", "shimashita", ":", "e">> >>
      [] message = "traceback" ->
            << <<"Traceback", "(most", "recent", "call", "last)", ":">>, <<"Exception", ":", "e">> >>
      [] message = "import_traceback" ->
            << <<"Traceback", "(most", "recent", "call", "last)", ":">>,
               <<"ModuleNotFoundError", ":", "No", "module", "named", "ortools">> >>
      [] OTHER -> << <<message>> >>

RECURSIVE stream_text(_)
\* the text of a stream, from the messages printed to it
stream_text(messages) ==
    IF messages = <<>> THEN <<>>
    ELSE printed_lines(Head(messages)) \o stream_text(Tail(messages))

RECURSIVE lstrip(_)
\* str.lstrip, on whole lines
lstrip(text) ==
    IF text = <<>> THEN <<>>
    ELSE IF Head(text) = <<>> THEN lstrip(Tail(text))
    ELSE text

RECURSIVE rstrip(_)
\* str.rstrip, on whole lines
rstrip(text) ==
    IF text = <<>> THEN <<>>
    ELSE IF text[Len(text)] = <<>> THEN rstrip(SubSeq(text, 1, Len(text) - 1))
    ELSE text

\* str.strip, on whole lines
strip(text) == rstrip(lstrip(text))

\* pattern in text: the words of the pattern follow one another in a line
contains(text, pattern) ==
    \E l \in 1..Len(text) : \E k \in 0..(Len(text[l]) - Len(pattern)) :
        \A j \in 1..Len(pattern) : text[l][k + j] = pattern[j]

\* lines[-5:]
last_lines(lines) == SubSeq(lines, IF Len(lines) > 5 THEN Len(lines) - 4 ELSE 1, Len(lines))

\* str.split('\n') of a text: the text without lines is one empty line
split_lines(text) == IF text = <<>> THEN << <<>> >> ELSE text

Init ==
    /\ op = "none"
    /\ employees = <<>>
    /\ preferences = EmptyDict
    /\ num_days = 0
    /\ solve_called = FALSE
    /\ status = "none"
    /\ values = NoValues
    /\ outcome = "none"
    /\ result = EmptyDict
    /\ stats = NoStats
    /\ exit_code = -1
    /\ artifact = "absent"
    /\ wrote = FALSE
    /\ stdout = <<>>
    /\ stderr = <<>>
    /\ master = NoMaster
    /\ pref_files = EmptyDict
    /\ reply = NoReply
    /\ threads = <<>>
    /\ served = 0

\* a faulty body: a missing preference entry is read as the default tag, so
\* a short list no longer stops the build
optimize_shifts_outcomes_padded(emps, prefs, nd) ==
    LET padded == [name \in DOMAIN prefs |->
                      [d \in 1..nd |-> IF d <= Len(prefs[name]) THEN prefs[name][d]
                                       ELSE DOCHIRADEMO]]
    IN  {[solve_called |-> TRUE,
          solved |-> solved,
          returned |-> returned(solved, emps, padded, nd)] :
            solved \in Solve(emps, padded, nd)}

\* the body of optimize_shifts: build, solve, extract
optimize_shifts_outcomes(emps, prefs, nd) ==
    IF raises_IndexError(emps, prefs, nd)
    THEN {[solve_called |-> FALSE,
           solved |-> [status |-> "none", values |-> NoValues],
           returned |-> [outcome |-> "IndexError", result |-> EmptyDict, stats |-> NoStats]]}
    ELSE {[solve_called |-> TRUE,
           solved |-> solved,
           returned |-> returned(solved, emps, prefs, nd)] :
             solved \in Solve(emps, prefs, nd)}

\* what optimize_shifts prints, as message names
optimize_shifts_prints(o) ==
    IF ~o.solve_called THEN <<"optimize_start">>
    ELSE <<"optimize_start",
           IF is_success(o.solved.status) THEN "optimize_done" ELSE "no_solution">>

\* optimize_shifts(req.employees, req.preferences, req.num_days) is called
\* and ends with o
direct_call(req, o) ==
    /\ op' = "optimize_shifts"
    /\ employees' = req.employees
    /\ preferences' = req.preferences
    /\ num_days' = req.num_days
    /\ solve_called' = o.solve_called
    /\ status' = o.solved.status
    /\ values' = o.solved.values
    /\ outcome' = o.returned.outcome
    /\ result' = o.returned.result
    /\ stats' = o.returned.stats
    /\ stdout' = optimize_shifts_prints(o)
    /\ stderr' = <<>>
    /\ exit_code' = -1
    /\ wrote' = FALSE
    /\ UNCHANGED artifact
    /\ UNCHANGED app_vars

\* a direct call optimize_shifts(employees, preferences, num_days)
optimize_shifts ==
    \E emps \in EmployeeLists, nd \in 0..MaxDays :
        /\ op = "none"
        /\ \E req \in {q \in Requests : q.employees = emps /\ q.num_days = nd} :
           \E o \in optimize_shifts_outcomes(req.employees, req.preferences, req.num_days) :
              direct_call(req, o)

\* the staff of the requests with a spare employee
SlackStaff == <<"A", "B", "C", "D">>

\* the length of the month of these requests
SlackDays == 3

\* the same tag on every day
every_day(p, len) == [d \in 1..len |-> p]

\* requests in which the employee at position x asks for early on every day
\* and every other employee carries the tag p on every day
SlackRequests ==
    {[employees |-> emps, num_days |-> SlackDays,
      preferences |-> [name \in Range(emps) |->
                          every_day(IF name = emps[x] THEN HAYABAN ELSE p, SlackDays)]] :
        emps \in {SubSeq(SlackStaff, 1, n) : n \in (Len(SlackStaff) - 1)..Len(SlackStaff)},
        x \in 1..2, p \in {DOCHIRADEMO, HAYABAN, KIBOKYU}}

\* a direct call of optimize_shifts with such a request
optimize_shifts_with_slack ==
    \E req \in SlackRequests :
        /\ op = "none"
        /\ \E o \in optimize_shifts_outcomes(req.employees, req.preferences, req.num_days) :
              direct_call(req, o)

(***************************************************************************)
(* The optimizer process: ShiftOptimizerV3_2(base_path="output").run(),    *)
(* started with the year and month as its argument                         *)
(***************************************************************************)
\* an empty cell of the input sheet (openpyxl gives None)
EMPTY == ""

\* the cell values the input sheets are filled from
SheetTags == {EMPTY, NAKABAN, KIBOKYU}

\* row r of a sheet: the tag c on every third day, empty cells elsewhere
SheetRow(r, c, len) == [d \in 1..len |-> IF (r + d) % 3 = 0 THEN c ELSE EMPTY]

\* input sheets: a column of names, num_dates date columns, one row of cells
\* per name
Sheets ==
    {[names |-> emps, num_dates |-> nd,
      cells |-> [r \in 1..Len(emps) |-> SheetRow(r, c, nd)]] :
        emps \in EmployeeLists, nd \in 0..MaxDays, c \in SheetTags}

\* pref_value of one cell
pref_value(cell_value) ==
    IF cell_value = EMPTY THEN DOCHIRADEMO
    ELSE IF cell_value = NAKABAN THEN DOCHIRADEMO
    ELSE cell_value

RECURSIVE load_rows(_, _, _)
\* the loop over the sheet's rows from row r on: preferences[emp_name] is
\* reset for every row, so the last row of a name stays
load_rows(r, acc, sheet) ==
    IF r > Len(sheet.names) THEN acc
    ELSE load_rows(r + 1,
                   put(acc, sheet.names[r],
                       [d \in 1..sheet.num_dates |-> pref_value(sheet.cells[r][d])]),
                   sheet)

\* employees, preferences and len(date_columns)
load_excel_from_folder(sheet) ==
    [employees |-> sheet.names,
     num_days |-> sheet.num_dates,
     preferences |-> load_rows(1, EmptyDict, sheet)]

\* what run() does with what optimize_shifts gave it: an exception ends the
\* process with code 1; a truthy result is saved, and the process ends with
\* code 0 whether or not the save succeeded; otherwise sys.exit(1)
run_report(o, save_ok) ==
    IF o.returned.outcome = "IndexError"
    THEN [exit_code |-> 1, saved |-> FALSE,
          stderr |-> <<"traceback">>,
          stdout |-> <<"run_start", "loading", "load_done">>
                        \o optimize_shifts_prints(o) \o <<"error_occurred">>]
    ELSE IF o.returned.result # EmptyDict
    THEN IF save_ok
         THEN [exit_code |-> 0, saved |-> TRUE,
               stderr |-> <<>>,
               stdout |-> <<"run_start", "loading", "load_done">>
                             \o optimize_shifts_prints(o) \o <<"save_start", "save_done">>]
         ELSE [exit_code |-> 0, saved |-> FALSE,
               stderr |-> <<"traceback">>,
               stdout |-> <<"run_start", "loading", "load_done">>
                             \o optimize_shifts_prints(o) \o <<"save_start", "save_error">>]
    ELSE [exit_code |-> 1, saved |-> FALSE,
          stderr |-> <<>>,
          stdout |-> <<"run_start", "loading", "load_done">>
                        \o optimize_shifts_prints(o) \o <<"no_solution">>]

\* the process ends before optimize_shifts is called
exit_before_optimize(out, err, code) ==
    /\ stdout' = out
    /\ stderr' = err
    /\ exit_code' = code
    /\ solve_called' = FALSE
    /\ status' = "none"
    /\ outcome' = "none"
    /\ UNCHANGED <<employees, preferences, num_days, values, result, stats, artifact, wrote>>

\* run(): folder_exists and input_file are the state of the month's folder,
\* save_ok whether the result workbook can be written.  The solver's values
\* and the returned result and stats end with the process.
run ==
    \E emps \in EmployeeLists, nd \in 0..MaxDays :
        /\ op = "none"
        /\ op' = "run"
        /\ UNCHANGED app_vars
        /\ \E folder_exists \in BOOLEAN, input_file \in {"missing", "unreadable", "readable"},
              save_ok \in BOOLEAN,
              sheet \in {t \in Sheets : t.names = emps /\ t.num_dates = nd} :
            IF ~folder_exists
            THEN exit_before_optimize(<<"run_start", "folder_not_found">>, <<>>, 1)
            ELSE IF input_file = "missing"
            THEN exit_before_optimize(<<"run_start", "input_not_found">>, <<>>, 1)
            ELSE IF input_file = "unreadable"
            THEN exit_before_optimize(<<"run_start", "loading", "error_occurred">>,
                                      <<"traceback">>, 1)
            ELSE \E loaded \in {load_excel_from_folder(sheet)} :
                 \E o \in optimize_shifts_outcomes(loaded.employees, loaded.preferences,
                                                   loaded.num_days) :
                 \E report \in {run_report(o, save_ok)} :
                    /\ employees' = loaded.employees
                    /\ preferences' = loaded.preferences
                    /\ num_days' = loaded.num_days
                    /\ solve_called' = o.solve_called
                    /\ status' = o.solved.status
                    /\ outcome' = o.returned.outcome
                    /\ values' = NoValues
                    /\ result' = EmptyDict
                    /\ stats' = NoStats
                    /\ stdout' = report.stdout
                    /\ stderr' = report.stderr
                    /\ exit_code' = report.exit_code
                    /\ wrote' = report.saved
                    /\ artifact' = IF report.saved THEN "present" ELSE artifact

(***************************************************************************)
(* run_optimizer (app.py): the input workbook, the optimizer process and   *)
(* the reading of its exit code and streams                                *)
(***************************************************************************)
\* create_input_excel: one row per staff name, one cell per day of the
\* month, 'dochirademo' where the staff's preferences have no entry
create_input_excel(staff_names, all_preferences) ==
    [names |-> staff_names,
     num_dates |-> MonthDays,
     cells |-> [r \in 1..Len(staff_names) |->
                  [d \in 1..MonthDays |->
                      IF staff_names[r] \in DOMAIN all_preferences
                      THEN (IF d \in DOMAIN all_preferences[staff_names[r]]
                            THEN all_preferences[staff_names[r]][d] ELSE DOCHIRADEMO)
                      ELSE DOCHIRADEMO]]]

\* what can become of the optimizer process: how it is started and what it
\* finds in the month's folder
ProcessFates ==
    {"import_error", "timed_out", "folder_not_found", "input_not_found", "unreadable", "ran"}

\* a process that ended before optimize_shifts was called
ended_early(out, err, code) ==
    [employees |-> <<>>, preferences |-> EmptyDict, num_days |-> 0,
     solve_called |-> FALSE, status |-> "none", outcome |-> "none",
     exit_code |-> code, saved |-> FALSE, stdout |-> out, stderr |-> err]

\* the process that loaded the workbook, got o from optimize_shifts and
\* ended with the report
process_of(loaded, o, report) ==
    [employees |-> loaded.employees,
     preferences |-> loaded.preferences,
     num_days |-> loaded.num_days,
     solve_called |-> o.solve_called,
     status |-> o.solved.status,
     outcome |-> o.returned.outcome,
     exit_code |-> report.exit_code,
     saved |-> report.saved,
     stdout |-> report.stdout,
     stderr |-> report.stderr]

\* run() from the call of optimize_shifts on
processes_after_load(loaded, save_ok) ==
    {CHOOSE p \in {process_of(loaded, o, report) : report \in {run_report(o, save_ok)}} : TRUE :
        o \in optimize_shifts_outcomes(loaded.employees, loaded.preferences,
                                       loaded.num_days)}

\* the optimizer process on the input workbook: run() with the year and
\* month as argument
process_outcomes(sheet, fate, save_ok) ==
    IF fate = "import_error" THEN {ended_early(<<>>, <<"import_traceback">>, 1)}
    ELSE IF fate = "timed_out" THEN {ended_early(<<"run_start", "loading">>, <<>>, -1)}
    ELSE IF fate = "folder_not_found"
    THEN {ended_early(<<"run_start", "folder_not_found">>, <<>>, 1)}
    ELSE IF fate = "input_not_found"
    THEN {ended_early(<<"run_start", "input_not_found">>, <<>>, 1)}
    ELSE IF fate = "unreadable"
    THEN {ended_early(<<"run_start", "loading", "error_occurred">>, <<"traceback">>, 1)}
    ELSE CHOOSE ps \in {processes_after_load(loaded, save_ok) :
                            loaded \in {load_excel_from_folder(sheet)}} : TRUE

\* the hints run_optimizer appends to an error message
LibraryHint == <<"(", "hitsuyo", "na", "library", "wo", "kakunin", ")">>
InputFileHint == <<"(", "nyuryoku", "file", "wo", "kakunin", ")">>
ConstraintHint == <<"(", "seiyaku", "wo", "mitasu", "kai", "nashi", "kibo", "wo", "chosei", ")">>

\* f'... error code {result.returncode} ...'
exit_code_line(returncode) ==
    <<"saitekika", "script", "ga", "era", "code", IF returncode = 1 THEN "1" ELSE "n",
      "de", "shuryo", "shimashita">>

\* the header of the copied output lines
OutputTailHeader == <<"shutsuryoku", "naiyo", "(", "saigo", "no", "sugyo", ")", ":">>

\* a faulty text: the output stream read before the error stream
error_text_stdout_first(returncode, stdout_text, stderr_text) ==
    IF stdout_text # <<>> THEN strip(stdout_text)
    ELSE IF stderr_text # <<>> THEN strip(stderr_text)
    ELSE <<exit_code_line(returncode)>>

\* error_msg after "if stderr_text: ... elif stdout_text: ..."
first_stream(stdout_text, stderr_text) ==
    IF stderr_text # <<>> THEN strip(stderr_text)
    ELSE IF stdout_text # <<>> THEN strip(stdout_text)
    ELSE <<>>

\* error_msg before the patterns are looked for (lines 283-300)
error_text(returncode, stdout_text, stderr_text) ==
    IF first_stream(stdout_text, stderr_text) # <<>>
    THEN first_stream(stdout_text, stderr_text)
    ELSE IF stdout_text # <<>>
    THEN <<exit_code_line(returncode), <<>>, OutputTailHeader>>
         \o last_lines(split_lines(strip(stdout_text)))
    ELSE <<exit_code_line(returncode)>>

\* lines 302-311: the text and the hint of the first pattern found in it
with_hint(text) ==
    IF contains(text, <<"ModuleNotFoundError">>) \/ contains(text, <<"ImportError">>)
    THEN text \o << <<>>, LibraryHint>>
    ELSE IF contains(text, <<"FileNotFoundError">>) \/ contains(text, <<"mitsukarimasen">>)
    THEN text \o << <<>>, InputFileHint>>
    ELSE IF contains(text, <<"era">>) \/ contains(text, <<"era", ":">>)
    THEN text
    ELSE IF contains(text, <<"saitekikai", "ga", "mitsukarimasen">>)
            \/ contains(text, <<"shippai", "shimashita">>)
    THEN text \o << <<>>, ConstraintHint>>
    ELSE text

\* error_msg as returned (lines 283-313)
error_message(returncode, stdout_text, stderr_text) ==
    CHOOSE msg \in {with_hint(text) : text \in {error_text(returncode, stdout_text, stderr_text)}} :
        TRUE

\* the fixed messages run_optimizer returns
NoStaffMessage == << <<"staff", "ga", "toroku", "sarete", "imasen">> >>
NoOutputFileMessage ==
    << <<"saitekika", "wa", "kanryo", "shutsuryoku", "file", "ga", "mitsukarimasen">> >>
TimeoutMessage == << <<"saitekika", "shori", "ga", "timeout", "shimashita">> >>

\* a faulty reading: exit code 0 is success whether or not the file exists
process_result_ignoring_file(returncode, output_file_exists, stdout_text, stderr_text) ==
    IF returncode = 0 THEN [success |-> TRUE, error |-> <<>>]
    ELSE [success |-> FALSE, error |-> error_message(returncode, stdout_text, stderr_text)]

\* what run_optimizer returns when the process has ended (lines 274-313)
process_result(returncode, output_file_exists, stdout_text, stderr_text) ==
    IF returncode = 0
    THEN IF output_file_exists THEN [success |-> TRUE, error |-> <<>>]
         ELSE [success |-> FALSE, error |-> NoOutputFileMessage]
    ELSE [success |-> FALSE, error |-> error_message(returncode, stdout_text, stderr_text)]

\* the optimizer script is missing beside app.py
ScriptMissingMessage == << <<"saitekika", "script", "ga", "mitsukarimasen", ":", "path">> >>

\* no optimizer process was started
NoProcess == ended_early(<<>>, <<>>, -1)

\* where run_optimizer is started from: whether Shift_optimizer.py is beside
\* app.py, what becomes of the process, whether the result workbook can be
\* written
Environments ==
    {[script_exists |-> FALSE, fate |-> "ran", save_ok |-> TRUE]}
    \cup {[script_exists |-> TRUE, fate |-> f, save_ok |-> TRUE] : f \in ProcessFates}
    \cup {[script_exists |-> TRUE, fate |-> "ran", save_ok |-> FALSE]}

\* run_optimizer(year_month): whether the process was started, the process,
\* the result workbook afterwards and the dict returned
run_optimizer(m, files, output_file, env) ==
    IF get_staff_list(m) = <<>>
    THEN {[started |-> FALSE, process |-> NoProcess, artifact |-> output_file,
           returned |-> [success |-> FALSE, error |-> NoStaffMessage]]}
    ELSE IF ~env.script_exists
    THEN {[started |-> FALSE, process |-> NoProcess, artifact |-> output_file,
           returned |-> [success |-> FALSE, error |-> ScriptMissingMessage]]}
    ELSE {[started |-> TRUE,
           process |-> p,
           artifact |-> IF p.saved THEN "present" ELSE output_file,
           returned |->
               IF env.fate = "timed_out"
               THEN [success |-> FALSE, error |-> TimeoutMessage]
               ELSE process_result(p.exit_code,
                                   (IF p.saved THEN "present" ELSE output_file) = "present",
                                   stream_text(p.stdout), stream_text(p.stderr))] :
             p \in {q : q \in process_outcomes(
                                    create_input_excel(
                                        [i \in 1..Len(get_staff_list(m)) |->
                                            get_staff_list(m)[i].name],
                                        get_all_preferences(m, files)),
                                    env.fate, env.save_ok)}}

(***************************************************************************)
(* The request handlers of the application (app.py), each taken as one     *)
(* step                                                                    *)
(***************************************************************************)
\* app.py SHIFT_TYPES: the options of the input form
SHIFT_TYPES == <<HAYABAN, NAKABAN, OSOBAN, YASUMI, YUKYU, HANKYU>>

\* the tags the submitted forms of the model carry: early, mid and rest
SubmittedTags == {SHIFT_TYPES[1], SHIFT_TYPES[2], SHIFT_TYPES[4]}

\* the preferences of a submitted form: the tag t on every second day, no
\* field for the other days
Submission(staff_name, t) ==
    [d \in {k \in 1..MonthDays : (StaffIndex(staff_name) + k) % 2 = 0} |-> t]

\* the variables that describe the optimizer process take the values of p
process_is(p) ==
    /\ employees' = p.employees
    /\ preferences' = p.preferences
    /\ num_days' = p.num_days
    /\ solve_called' = p.solve_called
    /\ status' = p.status
    /\ outcome' = p.outcome
    /\ exit_code' = p.exit_code
    /\ wrote' = p.saved
    /\ stdout' = p.stdout
    /\ stderr' = p.stderr
    /\ values' = NoValues
    /\ result' = EmptyDict
    /\ stats' = NoStats

\* POST /setup
setup ==
    \E staff_names \in SetupLists :
        /\ threads = <<>>
        /\ served < MaxRequests
        /\ served' = served + 1
        /\ op' = "setup"
        /\ process_is(NoProcess)
        /\ IF Len(staff_names) = 0
           THEN /\ reply' = [NoReply EXCEPT !.flashes = <<"error_no_staff_name">>]
                /\ UNCHANGED master
           ELSE /\ reply' = [NoReply EXCEPT !.flashes = <<"success_registered">>]
                /\ master' = create_month_shift(staff_names)
        /\ UNCHANGED <<pref_files, artifact, threads>>

\* POST /manage_staff
manage_staff ==
    \E action \in {"add", "remove"}, staff_name \in Range(Staff) \cup {""} :
        /\ threads = <<>>
        /\ served < MaxRequests
        /\ served' = served + 1
        /\ op' = "manage_staff"
        /\ process_is(NoProcess)
        /\ UNCHANGED <<artifact, threads>>
        /\ IF ~shift_exists(master)
           THEN /\ reply' = [NoReply EXCEPT !.flashes = <<"error_not_registered">>]
                /\ UNCHANGED <<master, pref_files>>
           ELSE IF staff_name = ""
           THEN /\ reply' = [NoReply EXCEPT !.flashes = <<"error_staff_name">>]
                /\ UNCHANGED <<master, pref_files>>
           ELSE IF action = "add"
           THEN /\ master' = add_staff(master, staff_name).master
                /\ reply' = [NoReply EXCEPT !.flashes =
                                IF add_staff(master, staff_name).returned
                                THEN <<"success_added">> ELSE <<"error_already_registered">>]
                /\ UNCHANGED pref_files
           ELSE IF Len(get_staff_list(master)) <= 1
           THEN /\ reply' = [NoReply EXCEPT !.flashes = <<"error_last_staff">>]
                /\ UNCHANGED <<master, pref_files>>
           ELSE /\ master' = remove_staff(master, pref_files, staff_name).master
                /\ pref_files' = remove_staff(master, pref_files, staff_name).pref_files
                /\ reply' = [NoReply EXCEPT !.flashes =
                                IF remove_staff(master, pref_files, staff_name).returned
                                THEN <<"success_removed">> ELSE <<"error_not_found">>]

\* the reply of submit after run_optimizer returned r
reply_after_run(r) ==
    [optimizer_invoked |-> TRUE,
     success |-> r.returned.success,
     error |-> r.returned.error,
     flashes |-> <<"success_submitted", "info_all_submitted",
                   IF r.returned.success THEN "success_optimized" ELSE "error_optimize_failed">>]

\* the reply of submit when somebody has not submitted yet
reply_without_run == [NoReply EXCEPT !.flashes = <<"success_submitted">>]

\* the end of submit, from check_all_submitted on, on the master m and the
\* preference files
check_and_run(m, files) ==
    IF check_all_submitted(m)
    THEN \E env \in Environments : \E r \in run_optimizer(m, files, artifact, env) :
            /\ process_is(r.process)
            /\ artifact' = r.artifact
            /\ reply' = reply_after_run(r)
    ELSE /\ process_is(NoProcess)
         /\ reply' = reply_without_run
         /\ UNCHANGED artifact

\* POST /submit.  Without the month's folder the preference workbook cannot
\* be saved and the handler ends in its except branch.
submit ==
    \E staff_name \in Range(Staff) \cup {""}, t \in SubmittedTags :
        /\ threads = <<>>
        /\ served < MaxRequests
        /\ served' = served + 1
        /\ op' = "submit"
        /\ UNCHANGED threads
        /\ IF staff_name = ""
           THEN /\ reply' = [NoReply EXCEPT !.flashes = <<"error_staff_name">>]
                /\ process_is(NoProcess)
                /\ UNCHANGED <<master, pref_files, artifact>>
           ELSE IF ~shift_exists(master)
           THEN /\ reply' = [NoReply EXCEPT !.flashes = <<"error_occurred">>]
                /\ process_is(NoProcess)
                /\ UNCHANGED <<master, pref_files, artifact>>
           ELSE /\ pref_files' = put(pref_files, staff_name,
                                     pref_file_rows(Submission(staff_name, t)))
                /\ master' = update_staff_master(master, staff_name, TRUE)
                /\ check_and_run(master', pref_files')

(***************************************************************************)
(* submit under concurrent requests (app.run serves each request in its    *)
(* own thread): the handler of one staff member, step by step.  Saving and *)
(* loading a workbook are taken as single steps.                           *)
(***************************************************************************)
\* the variables that describe the optimizer process
process_vars == <<employees, preferences, num_days, solve_called, status, values, outcome,
                  result, stats, exit_code, wrote, stdout, stderr>>

\* the handler of staff_name is at the step pc
at(staff_name, pc) == staff_name \in DOMAIN threads /\ threads[staff_name].pc = pc

\* the handler of staff_name moves to the step pc
goes_to(staff_name, pc) == threads' = [threads EXCEPT ![staff_name].pc = pc]

\* POST /submit arrives: staff_name and the shift_ fields are read
begin_submit ==
    \E staff_name \in Range(Staff) :
        /\ staff_name \notin DOMAIN threads
        /\ threads' = put(threads, staff_name, [pc |-> "save_preferences", wb |-> <<>>])
        /\ UNCHANGED <<op, process_vars, artifact, master, pref_files, reply, served>>

\* save_staff_preferences up to wb.save(pref_file); without the month's
\* folder the save raises and submit ends in its except branch
save_preferences ==
    \E staff_name \in Range(Staff) :
        /\ at(staff_name, "save_preferences")
        /\ IF ~shift_exists(master)
           THEN /\ goes_to(staff_name, "done")
                /\ reply' = [NoReply EXCEPT !.flashes = <<"error_occurred">>]
                /\ UNCHANGED pref_files
           ELSE /\ goes_to(staff_name, "load_master")
                /\ pref_files' = put(pref_files, staff_name,
                                     pref_file_rows(Submission(staff_name, SHIFT_TYPES[1])))
                /\ UNCHANGED reply
        /\ UNCHANGED <<op, process_vars, artifact, master, served>>

\* _update_staff_master: openpyxl.load_workbook(master_file)
load_master ==
    \E staff_name \in Range(Staff) :
        /\ at(staff_name, "load_master")
        /\ IF ~shift_exists(master)
           THEN goes_to(staff_name, "check")
           ELSE threads' = [threads EXCEPT ![staff_name] =
                               [pc |-> "save_master", wb |-> master.rows]]
        /\ UNCHANGED <<op, process_vars, artifact, master, pref_files, reply, served>>

\* _update_staff_master: the loop over the loaded rows and wb.save(master_file)
save_master ==
    \E staff_name \in Range(Staff) :
        /\ at(staff_name, "save_master")
        /\ master' = [master EXCEPT
                         !.rows = updated_rows(threads[staff_name].wb, staff_name, TRUE)]
        /\ goes_to(staff_name, "check")
        /\ UNCHANGED <<op, process_vars, artifact, pref_files, reply, served>>

\* submit from check_all_submitted on
check_submitted ==
    \E staff_name \in Range(Staff) :
        /\ at(staff_name, "check")
        /\ goes_to(staff_name, "done")
        /\ op' = "submit"
        /\ check_and_run(master, pref_files)
        /\ UNCHANGED <<master, pref_files, served>>

Next == optimize_shifts \/ run


Spec == Init /\ [][Next]_vars

\* the application: its handlers one after the other
AppNext == setup \/ manage_staff \/ submit

AppSpec == Init /\ [][AppNext]_vars

\* direct calls with a spare employee
SlackNext == optimize_shifts_with_slack

SlackSpec == Init /\ [][SlackNext]_vars

\* the month is set up, then the staff submit concurrently
RaceNext ==
    setup \/ begin_submit \/ save_preferences \/ load_master \/ save_master \/ check_submitted

RaceSpec == Init /\ [][RaceNext]_vars

(***************************************************************************)
(* Properties                                                              *)
(***************************************************************************)
RestLabels == {YASUMI, YUKYU, HANKYU}

\* optimize_shifts was called directly and returned (result, stats)
successful_return == op = "optimize_shifts" /\ outcome = "result_stats"

\* the list the caller reads for the i-th entry of employees
returned_row(i) == result[employees[i]]

\* the number of rest-labelled days of a returned list
rest_days(list) == Cardinality({d \in 1..Len(list) : list[d] \in RestLabels})

\* C1: after a successful return every employee's list has num_days entries,
\* every entry is the early label, the late label or one of the rest labels
\* (never the mid label), and the solver's values hold exactly one shift per
\* (employee, day)
C1_Exclusivity ==
    successful_return =>
        /\ \A i \in 1..Len(employees) :
            /\ employees[i] \in DOMAIN result
            /\ Len(returned_row(i)) = num_days
            /\ \A d \in 1..num_days :
                returned_row(i)[d] \in {HAYABAN, OSOBAN} \cup RestLabels
        /\ \A e \in 0..(Len(employees) - 1) : \A d \in 0..(num_days - 1) :
            values[e][d][0] + values[e][d][1] + values[e][d][2] = 1

\* a successful return for three employees in which all of early, late, plain
\* rest and a kept half-day label occur
C1_Witness ==
    /\ successful_return
    /\ Len(employees) = 3
    /\ num_days >= 3
    /\ \E i \in 1..3 : \E d \in 1..num_days : returned_row(i)[d] = HANKYU
    /\ \E i \in 1..3 : \E d \in 1..num_days : returned_row(i)[d] = YASUMI
    /\ \E i \in 1..3 : \E d \in 1..num_days : returned_row(i)[d] = HAYABAN
    /\ \E i \in 1..3 : \E d \in 1..num_days : returned_row(i)[d] = OSOBAN

\* C2: after a successful return, on every day some employee's list says
\* early and some employee's list says late
C2_Coverage ==
    successful_return =>
        \A d \in 1..num_days :
            /\ \E i \in 1..Len(employees) : returned_row(i)[d] = HAYABAN
            /\ \E i \in 1..Len(employees) : returned_row(i)[d] = OSOBAN

\* the names of the request are pairwise different
unique_names == \A i, j \in 1..Len(employees) : employees[i] = employees[j] => i = j

\* C2 for the requests whose names are pairwise different
C2_Coverage_UniqueNames == unique_names => C2_Coverage

\* C3: after a successful return no employee's list has late on a day and
\* early on the next
C3_NoLateThenEarly ==
    successful_return =>
        \A i \in 1..Len(employees) : \A d \in 1..(num_days - 1) :
            ~(returned_row(i)[d] = OSOBAN /\ returned_row(i)[d + 1] = HAYABAN)

\* a successful return in which an employee who asked for early on the day
\* after a late day was not given it
C3_Witness ==
    /\ successful_return
    /\ \E i \in 1..Len(employees) : \E d \in 1..(num_days - 1) :
        /\ returned_row(i)[d] = OSOBAN
        /\ preferences[employees[i]][d + 1] = HAYABAN
        /\ returned_row(i)[d + 1] # HAYABAN

SolveMeetsModelConstraints ==
    (op = "optimize_shifts" /\ is_success(status)) =>
        ModelConstraints(values, Len(employees), num_days)

\* optimize_shifts was called, directly or by run(), and reached the solver
solved_request == op \in {"optimize_shifts", "run"} /\ solve_called

\* C5: optimize_shifts returns (result, stats) only when the status is
\* OPTIMAL or FEASIBLE; for every other status it returns (None, None), and
\* run() then writes no result workbook and exits with a nonzero code
C5_SuccessOnlyOnOptimalOrFeasible ==
    /\ (op \in {"optimize_shifts", "run"} /\ outcome = "result_stats")
           => status \in {OPTIMAL, FEASIBLE}
    /\ (solved_request /\ status \notin {OPTIMAL, FEASIBLE})
           => /\ outcome = "None_None"
              /\ result = EmptyDict
              /\ stats = NoStats
              /\ op = "run" => (~wrote /\ artifact = "absent" /\ exit_code > 0)

\* run() on a readable sheet of three employees whose solve ends without an
\* assignment: nothing written, exit code 1
C5_Witness ==
    /\ op = "run"
    /\ Len(employees) = 3
    /\ solve_called
    /\ status \in {INFEASIBLE, UNKNOWN}
    /\ outcome = "None_None"
    /\ ~wrote
    /\ exit_code = 1

\* the score of the claim for one (employee, day)
claim_score(pref, label) ==
    IF pref = HAYABAN /\ label = HAYABAN THEN 20
    ELSE IF pref = OSOBAN /\ label = OSOBAN THEN 20
    ELSE IF pref \in {KIBOKYU, YUKYU, HANKYU} /\ label \in RestLabels THEN 30
    ELSE IF pref = DOCHIRADEMO /\ label \in {HAYABAN, OSOBAN} THEN 5
    ELSE 0

\* the slot a solver value gives
slot_of(cell) == IF cell[0] = 1 THEN HAYABAN ELSE IF cell[1] = 1 THEN OSOBAN ELSE YASUMI

\* the claim's score of the returned lists, summed over the entries of
\* employees and the days
ReturnedScore ==
    SumTo([e \in 0..(Len(employees) - 1) |->
              SumTo([d \in 0..(num_days - 1) |->
                        claim_score(preferences[employees[e + 1]][d + 1],
                                    returned_row(e + 1)[d + 1])],
                    num_days)],
          Len(employees))

\* the claim's score of an assignment of the solver
AssignmentScore(v) ==
    SumTo([e \in 0..(Len(employees) - 1) |->
              SumTo([d \in 0..(num_days - 1) |->
                        claim_score(preferences[employees[e + 1]][d + 1],
                                    slot_of(v[e][d]))],
                    num_days)],
          Len(employees))

\* the largest score over the assignments that satisfy the hard constraints
BestScore == Maximum({AssignmentScore(v) : v \in SolutionTable[Len(employees), num_days]})

\* C6: when the solve ends OPTIMAL, the returned assignment has the largest
\* score among the assignments that satisfy the hard constraints
C6_OptimalMaximizesScore ==
    (successful_return /\ status = OPTIMAL) => ReturnedScore = BestScore

\* C6 for the requests whose names are pairwise different
C6_OptimalMaximizesScore_UniqueNames == unique_names => C6_OptimalMaximizesScore

\* the solver's own assignment has the largest score, whatever the names are
C6_SolverValuesMaximizeScore ==
    (successful_return /\ status = OPTIMAL) => AssignmentScore(values) = BestScore

\* every employee's preference list has at least num_days entries
full_lists == \A i \in 1..Len(employees) : Len(preferences[employees[i]]) >= num_days

\* optimize_shifts was called, directly or by run()
requested == op = "optimize_shifts" \/ (op = "run" /\ outcome # "none")

\* C7: a request with exactly one employee and num_days >= 2 never yields an
\* assignment, whatever the preferences are; the solver, when it ends within
\* its time, ends INFEASIBLE
C7_SingleEmployeeInfeasible ==
    (requested /\ Len(employees) = 1 /\ num_days >= 2) =>
        /\ outcome # "result_stats"
        /\ result = EmptyDict
        /\ full_lists => (solve_called /\ status \in {INFEASIBLE, UNKNOWN})
        /\ op = "run" => (~wrote /\ exit_code = 1)

\* the claim's example: one employee, three days, no preference on any day,
\* and the solver ends INFEASIBLE
C7_Witness ==
    /\ op = "optimize_shifts"
    /\ Len(employees) = 1
    /\ num_days = 3
    /\ full_lists
    /\ \A d \in 1..3 : preferences[employees[1]][d] = DOCHIRADEMO
    /\ status = INFEASIBLE
    /\ outcome = "None_None"

\* C8: a request in which some employee's list is shorter than num_days fails
\* while the model is built: the solver is never called and nothing is
\* returned
C8_ShortListFailsBeforeSolve ==
    (requested /\ ~full_lists) =>
        /\ outcome = "IndexError"
        /\ ~solve_called
        /\ status = "none"
        /\ result = EmptyDict
        /\ stats = NoStats

\* the claim's example: a list of num_days - 1 entries among three employees
C8_Witness ==
    /\ op = "optimize_shifts"
    /\ Len(employees) = 3
    /\ num_days >= 3
    /\ \E i \in 1..3 : Len(preferences[employees[i]]) = num_days - 1
    /\ outcome = "IndexError"
    /\ ~solve_called

\* C9: a request whose employee list holds a name twice, or whose num_days
\* is less than 1, is rejected without a solve and without an assignment or
\* statistics
C9_DuplicateOrNoDaysRejected ==
    (requested /\ (~unique_names \/ num_days < 1)) =>
        /\ ~solve_called
        /\ outcome # "result_stats"

\* what the caller of optimize_shifts gets back, and what the caller of the
\* process gets back, apart from printed text
caller_view == <<outcome, result, stats, exit_code, wrote>>

\* the same for this request had the solver ended with the given status and
\* no assignment
view_of_failure(st) ==
    LET o == [solve_called |-> TRUE,
              solved |-> [status |-> st, values |-> NoValues],
              returned |-> returned([status |-> st, values |-> NoValues],
                                    employees, preferences, num_days)]
    IN  IF op = "run"
        THEN <<o.returned.outcome, EmptyDict, NoStats,
               run_report(o, TRUE).exit_code, run_report(o, TRUE).saved>>
        ELSE <<o.returned.outcome, o.returned.result, o.returned.stats, -1, FALSE>>

\* C10: the outcome reported when the time runs out with no assignment
\* (UNKNOWN) differs, for the caller of optimize_shifts and for the caller of
\* the process, from the one reported when the constraints are proven
\* unsatisfiable (INFEASIBLE)
C10_TimedOutDiffersFromInfeasible ==
    (solved_request /\ status = UNKNOWN) => caller_view # view_of_failure(INFEASIBLE)

\* the index of the row of solver values that result[employees[i]] was
\* written from: the last entry of employees with that name
written_from(i) ==
    CHOOSE j \in 1..Len(employees) :
        /\ employees[j] = employees[i]
        /\ \A k \in 1..Len(employees) : employees[k] = employees[i] => k <= j

\* the label the claim gives a slot under a preference
resolved_label(cell, pref) ==
    IF cell[0] = 1 THEN HAYABAN
    ELSE IF cell[1] = 1 THEN OSOBAN
    ELSE IF pref = YUKYU THEN YUKYU
    ELSE IF pref = HANKYU THEN HANKYU
    ELSE YASUMI

\* C11: after a successful return, for every employee and day, a rest slot
\* is labelled paid leave when the preference was paid leave, half day when
\* it was half day and plain rest under every other preference; an early or
\* late slot is labelled early or late whatever the preference
C11_ResolvedLabels ==
    successful_return =>
        \A i \in 1..Len(employees) : \A d \in 1..num_days :
            returned_row(i)[d] =
                resolved_label(values[written_from(i) - 1][d - 1], preferences[employees[i]][d])

\* a successful return with a rest slot that kept the half-day label, a rest
\* slot under no preference labelled plain rest, and an early slot on a day
\* for which half day was asked
C11_Witness ==
    /\ successful_return
    /\ \E i \in 1..Len(employees) : \E d \in 1..num_days :
        /\ preferences[employees[i]][d] = HANKYU
        /\ values[written_from(i) - 1][d - 1][2] = 1
        /\ returned_row(i)[d] = HANKYU
    /\ \E i \in 1..Len(employees) : \E d \in 1..num_days :
        /\ preferences[employees[i]][d] = DOCHIRADEMO
        /\ values[written_from(i) - 1][d - 1][2] = 1
        /\ returned_row(i)[d] = YASUMI
    /\ \E i \in 1..Len(employees) : \E d \in 1..num_days :
        /\ preferences[employees[i]][d] = HANKYU
        /\ returned_row(i)[d] = HAYABAN

\* the number of days of a list that carry the label x
labelled_days(list, x) == Cardinality({d \in 1..Len(list) : list[d] = x})

\* the claim's example: 8 plain rest labels and 4 half-day labels
EightRestFourHalf == [d \in 1..12 |-> IF d <= 8 THEN YASUMI ELSE HANKYU]

\* C12: after a successful return every employee's statistics are the counts
\* of that employee's own returned labels: early_counts the early labels,
\* late_counts the late labels, and rest_counts (in half days) twice the
\* plain rest labels plus twice the paid-leave labels plus the half-day
\* labels; 8 rest labels and 4 half-day labels give 10.0 (20 half days)
C12_StatisticsFromLabels ==
    /\ rest_counts_of(EightRestFourHalf) = 20
    /\ successful_return =>
        \A i \in 1..Len(employees) :
            /\ stats.early_counts[employees[i]] = labelled_days(returned_row(i), HAYABAN)
            /\ stats.late_counts[employees[i]] = labelled_days(returned_row(i), OSOBAN)
            /\ stats.rest_counts[employees[i]] =
                   2 * labelled_days(returned_row(i), YASUMI)
                   + 2 * labelled_days(returned_row(i), YUKYU)
                   + labelled_days(returned_row(i), HANKYU)

\* a successful return in which an employee has early, late, plain rest and
\* a half day, so that the weighted count is not a whole number
C12_Witness ==
    /\ successful_return
    /\ \E i \in 1..Len(employees) :
        /\ labelled_days(returned_row(i), HANKYU) = 1
        /\ labelled_days(returned_row(i), YASUMI) >= 1
        /\ stats.rest_counts[employees[i]] % 2 = 1
        /\ stats.early_counts[employees[i]] >= 1
        /\ stats.late_counts[employees[i]] >= 1

\* the last handler called run_optimizer
optimizer_invoked == op = "submit" /\ reply.optimizer_invoked

\* C13: run_optimizer reports success exactly when the optimizer process
\* ended with exit code 0 and the result workbook exists afterwards; every
\* other exit code, a process that never ended or never started, and exit
\* code 0 without the workbook are reported as failure
C13_SuccessIffExitZeroAndArtifact ==
    optimizer_invoked =>
        /\ reply.success <=> (exit_code = 0 /\ artifact = "present")
        /\ exit_code # 0 => (~reply.success /\ reply.error # <<>>)
        /\ (exit_code = 0 /\ artifact = "absent") => reply.error = NoOutputFileMessage

\* all staff submitted, the process wrote the workbook and ended with exit
\* code 0, and run_optimizer reported success
C13_Witness ==
    /\ optimizer_invoked
    /\ Len(employees) = 3
    /\ exit_code = 0
    /\ wrote
    /\ artifact = "present"
    /\ reply.success

\* the block of lines occurs in the text, line after line
has_block(text, block) ==
    \E k \in 0..(Len(text) - Len(block)) :
        \A j \in 1..Len(block) : text[k + j] = block[j]

\* the text is the other text, alone or followed by an empty line and a hint
is_text_with_hint(text, other) ==
    \/ text = other
    \/ \E hint \in {LibraryHint, InputFileHint, ConstraintHint} :
          text = other \o << <<>>, hint>>

\* submit called run_optimizer and the optimizer process ended with a
\* nonzero exit code
nonzero_exit == optimizer_invoked /\ exit_code > 0

\* C14: when the optimizer process ends with a nonzero exit code, the error
\* message of run_optimizer is the text of the error stream whenever that
\* stream is not empty, whatever the output stream holds; when the error
\* stream is empty and the output stream is not, the last lines of the
\* output stream are in the message.
C14_ErrorStreamPreferred ==
    nonzero_exit =>
        /\ stderr # <<>> =>
              is_text_with_hint(reply.error, strip(stream_text(stderr)))
        /\ (stderr = <<>> /\ stdout # <<>>) =>
              has_block(reply.error,
                        last_lines(split_lines(strip(stream_text(stdout)))))

\* the process read the workbook, failed and wrote to both streams
C14_Witness ==
    /\ nonzero_exit
    /\ stderr # <<>> /\ stdout # <<>>
    /\ reply.error # strip(stream_text(stdout))
    /\ has_block(reply.error, strip(stream_text(stderr)))

\* the process wrote to the output stream only
C14_WitnessOutputOnly ==
    /\ nonzero_exit
    /\ stderr = <<>> /\ Len(strip(stream_text(stdout))) > 5
    /\ has_block(reply.error, last_lines(split_lines(strip(stream_text(stdout)))))

\* the roster of the month is complete: it has a member and every member is
\* marked submitted
roster_complete == check_all_submitted(master)

\* C15: whenever an operation of the application makes the roster complete,
\* that operation has invoked the optimizer.
C15_CompletionInvokesOptimizer ==
    [][(~roster_complete /\ roster_complete') => reply'.optimizer_invoked]_vars

\* the operations that make the roster complete through a submitted form do
\* invoke the optimizer
C15_SubmitInvokesOptimizer ==
    [][(~roster_complete /\ roster_complete' /\ op' = "submit")
          => reply'.optimizer_invoked]_vars

\* optimize_shifts was called directly, the solver ended OPTIMAL and the
\* result was returned
optimal_return == successful_return /\ status = OPTIMAL

\* the preference of employee i is early on every day
prefers_early_every_day(i) ==
    \A d \in 1..num_days : preferences[employees[i]][d] = HAYABAN

\* the employees other than i have no preference on any day
others_have_no_preference(i) ==
    \A k \in 1..Len(employees) : k # i =>
        \A d \in 1..num_days : preferences[employees[k]][d] = DOCHIRADEMO

\* the other employees can cover early and late on every day without one
\* employee: the constraints have a solution for them alone
covered_without_one ==
    SolutionsFor(Len(employees) - 1, num_days) # {}

\* the same, with a solution in which each of them rests no more than the
\* constraints make them rest
covered_without_one_at_least_rest ==
    \E w \in SolutionsFor(Len(employees) - 1, num_days) :
        \A e \in 0..(Len(employees) - 2) : rest_count(w[e], num_days) = RestMin

\* employee i has early on every day without rest, early_count is num_days
\* minus the rest days and late_count is 0
early_whenever_working(i) ==
    /\ \A d \in 1..num_days : returned_row(i)[d] \in RestLabels \cup {HAYABAN}
    /\ stats.early_counts[employees[i]] = num_days - rest_days(returned_row(i))
    /\ stats.late_counts[employees[i]] = 0

\* C16 as stated: when one employee's preference is early on every day and
\* the other employees can cover early and late on every day without that
\* employee, every successful optimal assignment gives that employee early
\* on every day without rest, so early_count is num_days minus the rest days
\* and late_count is 0.
C16_EarlyUnderSlack ==
    optimal_return =>
        \A i \in 1..Len(employees) :
            (prefers_early_every_day(i) /\ covered_without_one)
                => early_whenever_working(i)

\* C16 amended: the same when, besides, the other employees have no
\* preference on any day and can cover without that employee while each of
\* them rests only the least number of days the constraints allow.
C16_EarlyUnderSlackWithoutCompetition ==
    optimal_return =>
        \A i \in 1..Len(employees) :
            (/\ prefers_early_every_day(i)
             /\ others_have_no_preference(i)
             /\ covered_without_one_at_least_rest)
                => early_whenever_working(i)

\* an optimal return for four employees of whom the second asks for early
\* on every day and the others for nothing: the second works early on two
\* days and rests on one
C16_Witness ==
    /\ optimal_return
    /\ Len(employees) = 4
    /\ prefers_early_every_day(2)
    /\ others_have_no_preference(2)
    /\ covered_without_one_at_least_rest
    /\ stats.early_counts[employees[2]] = 2
    /\ rest_days(returned_row(2)) = 1

\* the solver's cell of shift s: shifts[(e, d, s)] = 1
cell_of(s) == [k \in 0..(num_shifts - 1) |-> IF k = s THEN 1 ELSE 0]

\* the tags the objective has a branch for
ObjectiveTags == {HAYABAN, OSOBAN, KIBOKYU, YUKYU, HANKYU, DOCHIRADEMO}

\* submit called run_optimizer and the optimizer process built its model
optimizer_built_model == optimizer_invoked /\ solve_called

\* the form staff member i submitted carries the tag t for day d
form_tag(i, d, t) ==
    /\ d \in DOMAIN load_staff_preferences(pref_files, employees[i])
    /\ load_staff_preferences(pref_files, employees[i])[d] = t

\* C17: a rest request submitted through the form (the rest option of
\* SHIFT_TYPES), carried through the preference file and the input
\* workbook, reaches the objective as a rest-requested preference, worth 30
\* when the employee is assigned rest on that day.
C17_FormRestRequestReachesObjective ==
    optimizer_built_model =>
        \A i \in 1..Len(employees) : \A d \in 1..num_days :
            form_tag(i, d, SHIFT_TYPES[4])
                => objective_term(preferences[employees[i]][d], cell_of(2)) = 30

\* the general part of C17: every tag the form can submit is, as the
\* optimizer loads it, a tag the objective has a branch for
C17_FormTagsAreObjectiveTags ==
    \A k \in 1..Len(SHIFT_TYPES) : pref_value(SHIFT_TYPES[k]) \in ObjectiveTags

\* an early request submitted through the form is worth 20 when the
\* employee is assigned early on that day
C17_FormEarlyRequestReachesObjective ==
    optimizer_built_model =>
        \A i \in 1..Len(employees) : \A d \in 1..num_days :
            form_tag(i, d, SHIFT_TYPES[1])
                => objective_term(preferences[employees[i]][d], cell_of(0)) = 20

\* the rows that satisfy the hard constraints on one employee: one shift a
\* day, no late shift before an early one, the rest band
HardRows(n_days) ==
    {r : r \in {row \in [0..(n_days - 1) -> OneShiftCells] :
                    /\ no_late_then_early(row, n_days)
                    /\ rest_band(row, n_days)}}

\* HardRows for every length of month
HardRowTable == [nd \in 0..MaxDays |-> HardRows(nd)]

\* the four hard constraints on a full value v
HardConstraints(v, num_employees, n_days) ==
    /\ \A e \in 0..(num_employees - 1) : \A d \in 0..(n_days - 1) :
           one_shift_per_day(v[e][d])
    /\ coverage(v, num_employees, n_days)
    /\ \A e \in 0..(num_employees - 1) : no_late_then_early(v[e], n_days)
    /\ \A e \in 0..(num_employees - 1) : rest_band(v[e], n_days)

\* the solver ended a direct call with an assignment
solved_with_values == op = "optimize_shifts" /\ is_success(status)

has_line(text, line) == \E l \in 1..Len(text) : text[l] = line

\* the optimizer process started by submit ended with a nonzero code
\* because optimize_shifts returned (None, None)
no_solution_exit == nonzero_exit /\ outcome = "None_None"

\* C19: when the optimizer process ends with a nonzero code because no
\* assignment was found, the error run_optimizer returns carries the hint
\* that the constraints cannot be met and the preferences should be
\* adjusted, and does not carry the hint to check the input file.
C19_NoSolutionCarriesConstraintHint ==
    no_solution_exit =>
        /\ has_line(reply.error, ConstraintHint)
        /\ ~has_line(reply.error, InputFileHint)

\* the text the hint is chosen from does hold the no-solution message
C19_NoSolutionMessageReachesCaller ==
    no_solution_exit =>
        contains(reply.error, <<"saitekikai", "ga", "mitsukarimasen">>)

\* no run of the application returns the constraint hint
C19_ConstraintHintNeverReturned == ~has_line(reply.error, ConstraintHint)

\* the handler of the roster member staff_name has ended
submitted_by_thread(staff_name) ==
    at(staff_name, "done") /\ has_row(master.rows, staff_name)

\* the master marks staff_name as submitted
marked_submitted(staff_name) ==
    \E i \in 1..Len(get_staff_list(master)) :
        get_staff_list(master)[i].name = staff_name /\ get_staff_list(master)[i].submitted

\* C20: when two different staff members of the month submit concurrently,
\* then under every interleaving of the load, modify and save steps on the
\* staff master both are recorded as submitted once their handlers have
\* ended.
C20_ConcurrentSubmitsBothRecorded ==
    \A s1, s2 \in Range(Staff) :
        (s1 # s2 /\ submitted_by_thread(s1) /\ submitted_by_thread(s2))
            => (marked_submitted(s1) /\ marked_submitted(s2))

\* every staff member of the roster has submitted, every handler has ended,
\* and the optimizer was never invoked
C20_CompletionMissed ==
    /\ get_staff_list(master) # <<>>
    /\ \A i \in 1..Len(get_staff_list(master)) :
          submitted_by_thread(get_staff_list(master)[i].name)
    /\ \A staff_name \in DOMAIN threads : at(staff_name, "done")
    /\ ~reply.optimizer_invoked
    /\ exit_code = -1 /\ employees = <<>>

\* one request after the other: a submit never takes away the mark of a
\* staff member who had submitted before
C20_SequentialSubmitsKeepMarks ==
    [][op' = "submit" =>
          \A staff_name \in Range(Staff) :
              marked_submitted(staff_name) => marked_submitted(staff_name)']_vars

\* C21: whenever run_optimizer reports success, the result workbook on disk
\* was written by the optimizer process of that same call: a run whose save
\* failed, or any run that leaves the workbook of an earlier run in place,
\* is not reported as success.
C21_SuccessOnlyForOwnArtifact ==
    (optimizer_invoked /\ reply.success) => wrote

\* where no workbook of an earlier run is in the folder, a reported success
\* does come with a workbook written by the same call
C21_SuccessWithoutEarlierArtifact ==
    [][(op' = "submit" /\ reply'.optimizer_invoked /\ reply'.success /\ artifact = "absent")
          => wrote']_vars

\* a success is reported although the solve succeeded and the save failed:
\* the workbook in the folder is the one an earlier run wrote
C21_StaleArtifactReported ==
    /\ optimizer_invoked /\ reply.success
    /\ is_success(status) /\ exit_code = 0
    /\ ~wrote /\ artifact = "present"
    /\ has_line(stream_text(stdout), printed_lines("save_error")[2])
====
